---- MODULE Spec2Model ----
(***************************************************************************)
(* The dimensionality-reduction notebook                                   *)
(* (content/xx_misc/dimensionality_reduction/colab.ipynb) as a state       *)
(* machine: one top-to-bottom run of its code cells.  The state is the     *)
(* notebook's global names, the position of the run (pc), the exception    *)
(* that stopped it (error), and two logs of what the run did to the        *)
(* outside: the estimator calls (calls) and the rendered charts (plots).   *)
(*                                                                         *)
(* Numbers.  The scaler works on reals.  A standardized value              *)
(* (x - mean) / scale is kept exact as [num, den2], standing for           *)
(* num / sqrt(den2): with n training rows, column sum S and                *)
(* V = n * sum(x^2) - S^2, mean = S / n, var = V / n^2, scale = sqrt(V)/n, *)
(* so (x - mean) / scale = (n*x - S) / sqrt(V).                            *)
(*                                                                         *)
(* Environment.  Three things are outside the notebook and are fixed for   *)
(* a run: the file behind the URL (remote), the stream the generator       *)
(* seeded with random_state=0 yields (rng, a ranking of the rows), and     *)
(* what LAPACK returns for the covariance matrix (lapack: the eigenvalues  *)
(* in the order produced, and which eigenvector sits in which column).     *)
(***************************************************************************)
EXTENDS Integers, Sequences, FiniteSets, TLC

\* ---------------------------------------------------------------- bounds
\* rows of the data file (178 in the wine data)
NumRows == 5
\* feature columns of the data file (13 in the wine data)
NumFeatures == 2
\* class labels are 1..NumClasses (3 in the wine data)
NumClasses == 2
\* feature values are 0..MaxFeatureVal
MaxFeatureVal == 1
\* rows of the arrays plot_decision_regions is tried on by itself
PlotRows == 6
\* eigenvalues LAPACK may return are -1..MaxEigenVal; -1 stands for the
\* eigenvalue of a rank-deficient covariance matrix that is zero up to
\* rounding and comes back just below zero
MaxEigenVal == 2

VARIABLES
    remote, rng, lapack,
    pc, error, fetches,
    df_wine, X_train, X_test, y_train, y_test,
    sc, X_train_std, X_test_std,
    cov_mat, eigen_vals, eigen_vecs, tot, var_exp, cum_var_exp,
    eigen_pairs, w,
    X_train_pca, X_test_pca, pca, lr,
    calls, plots,
    run, prev

envVars  == <<remote, rng, lapack>>
ctlVars  == <<pc, error, fetches>>
dataVars == <<df_wine, X_train, X_test, y_train, y_test>>
sclVars  == <<sc, X_train_std, X_test_std>>
eigVars  == <<cov_mat, eigen_vals, eigen_vecs, tot, var_exp, cum_var_exp,
              eigen_pairs, w>>
pcaVars  == <<X_train_pca, X_test_pca, pca, lr>>
logVars  == <<calls, plots>>
runVars  == <<run, prev>>
vars == <<envVars, ctlVars, dataVars, sclVars, eigVars, pcaVars, logVars, runVars>>

\* ---------------------------------------------------------------- helpers
Range(s) == {s[i] : i \in DOMAIN s}

Abs(x) == IF x < 0 THEN 0 - x ELSE x

RECURSIVE SumSeq(_)
SumSeq(s) == IF s = <<>> THEN 0 ELSE Head(s) + SumSeq(Tail(s))

\* column j of a matrix kept as a sequence of rows (m[:, j])
Column(m, j) == [i \in 1..Len(m) |-> m[i][j]]

\* the permutations of 1..n, as sequences
Perms(n) == {p \in [1..n -> 1..n] : \A i, j \in 1..n : p[i] = p[j] => i = j}

\* the elements of S as a sequence, lowest rank first
RECURSIVE OrderBy(_, _)
OrderBy(S, rank) ==
    IF S = {} THEN <<>>
    ELSE LET x == CHOOSE x \in S : \A y \in S : rank[x] <= rank[y]
         IN  <<x>> \o OrderBy(S \ {x}, rank)

\* an array that is not bound yet
NoArr == [rows |-> <<>>, vals |-> <<>>]

\* ------------------------------------------------------------ environment
Rows == 1..NumRows
Feats == 1..NumFeatures
Identity == [i \in Rows |-> i]

DefaultLabels == [i \in Rows |-> IF 2 * i <= NumRows THEN 1 ELSE 2]
DefaultFeats ==
    [i \in Rows |-> [j \in Feats |-> (i + j) % (MaxFeatureVal + 1)]]
DefaultFile == [labels |-> DefaultLabels, feats |-> DefaultFeats]

\* files that differ from the default one in the label column
LabelFiles ==
    {[labels |-> l, feats |-> DefaultFeats] : l \in [Rows -> 1..NumClasses]}

\* files that differ from the default one in one feature column
ColumnFiles ==
    {[labels |-> DefaultLabels,
      feats |-> [i \in Rows |->
                    [j \in Feats |-> IF j = c THEN col[i] ELSE DefaultFeats[i][j]]]] :
        c \in Feats, col \in [Rows -> 0..MaxFeatureVal]}

\* rankings of the rows the seeded generator may yield: the rotations of
\* the row order and of its reverse
RngStreams ==
    {[i \in Rows |-> ((i + k) % NumRows) + 1] : k \in 0..(NumRows - 1)}
    \cup {[i \in Rows |-> ((NumRows - i + k) % NumRows) + 1] : k \in 0..(NumRows - 1)}

EigenVals == (0 - 1)..MaxEigenVal
DefaultLapack == [vals |-> [j \in Feats |-> 1], order |-> [j \in Feats |-> j]]
LapackOutcomes ==
    {[vals |-> v, order |-> o] : v \in [Feats -> EigenVals], o \in Perms(NumFeatures)}

\* ------------------------------------------------------------------ state
NoScaler == [fitted |-> FALSE, n |-> 0, mean_num |-> <<>>, var_num |-> <<>>,
             scale2 |-> <<>>]
NoPcaArr == [by |-> "", op |-> "", input |-> "", rows |-> <<>>, ncols |-> 0,
             vals |-> <<>>]
NoPca == [id |-> "", n_components |-> 0, fitted_rows |-> {}]
NoLr == [made |-> FALSE, fitted |-> FALSE, X |-> NoPcaArr, y |-> NoArr,
         stream |-> <<>>]

\* the artifacts of a run: the split, the scaler, the sorted eigen-pairs and
\* W, the classifier, and what the run called and drew
Artifacts ==
    [X_train |-> X_train, X_test |-> X_test, y_train |-> y_train, y_test |-> y_test,
     sc |-> sc, eigen_pairs |-> eigen_pairs, w |-> w, lr |-> lr,
     calls |-> calls, plots |-> plots]

\* no run has finished yet
NoArtifacts ==
    [X_train |-> NoArr, X_test |-> NoArr, y_train |-> NoArr, y_test |-> NoArr,
     sc |-> NoScaler, eigen_pairs |-> <<>>, w |-> <<>>, lr |-> NoLr,
     calls |-> <<>>, plots |-> <<>>]

\* random_state=None: the process-wide generator, which has moved on by the
\* draws of the runs before
RandomState_global(seed) ==
    [i \in Rows |-> ((rng[i] - 1 + seed + (run - 1)) % NumRows) + 1]

\* random_state=seed: a generator seeded anew at every call, whose stream
\* depends on the seed alone (rng is the stream of seed 0)
RandomState(seed) ==
    [i \in Rows |-> ((rng[i] - 1 + seed) % NumRows) + 1]

Init ==
    /\ \/ remote \in LabelFiles /\ rng \in RngStreams /\ lapack = DefaultLapack
       \/ remote \in ColumnFiles /\ rng = Identity /\ lapack = DefaultLapack
       \/ remote = DefaultFile /\ rng = Identity /\ lapack \in LapackOutcomes
    /\ pc = "read_csv" /\ error = "none" /\ fetches = 0
    /\ df_wine = <<>>
    /\ X_train = NoArr /\ X_test = NoArr /\ y_train = NoArr /\ y_test = NoArr
    /\ sc = NoScaler /\ X_train_std = NoArr /\ X_test_std = NoArr
    /\ cov_mat = <<>> /\ eigen_vals = <<>> /\ eigen_vecs = <<>>
    /\ tot = 0 /\ var_exp = <<>> /\ cum_var_exp = <<>>
    /\ eigen_pairs = <<>> /\ w = <<>>
    /\ X_train_pca = NoPcaArr /\ X_test_pca = NoPcaArr
    /\ pca = NoPca /\ lr = NoLr
    /\ calls = <<>> /\ plots = <<>>
    /\ run = 1 /\ prev = NoArtifacts

\* the run is at `step` and no exception has stopped it
At(step) == pc = step /\ error = "none"

\* an exception `err` leaves the cell: the run stops where it is
Raise(err) ==
    /\ error' = err
    /\ pc' = pc
    /\ UNCHANGED <<runVars, envVars, fetches, dataVars, sclVars, eigVars, pcaVars, logVars>>

\* --------------------------------------------------------------- read_csv
\* df_wine = pd.read_csv(url, header=None): one GET, then the parse
ReadCsv ==
    /\ At("read_csv")
    /\ fetches' = fetches + 1
    /\ df_wine' = [i \in Rows |-> <<remote.labels[i]>> \o remote.feats[i]]
    /\ pc' = "split"
    /\ UNCHANGED <<runVars, envVars, error, X_train, X_test, y_train, y_test,
                   sclVars, eigVars, pcaVars, logVars>>

\* a failed read that is tried again instead of stopping the run
ReadCsvFail_retry ==
    /\ At("read_csv")
    /\ fetches' = fetches + 1
    /\ UNCHANGED <<runVars, envVars, pc, error, dataVars, sclVars, eigVars, pcaVars, logVars>>

\* the GET fails (URLError) or the body does not parse (ParserError)
ReadCsvFail ==
    /\ At("read_csv")
    /\ \E err \in {"URLError", "ParserError"} : error' = err
    /\ fetches' = fetches + 1
    /\ pc' = pc
    /\ UNCHANGED <<runVars, envVars, dataVars, sclVars, eigVars, pcaVars, logVars>>

\* ------------------------------------------------------------------ split
\* sum of f[x] over the finite set S
RECURSIVE SumOver(_, _)
SumOver(S, f) ==
    IF S = {} THEN 0
    ELSE LET x == CHOOSE x \in S : TRUE IN f[x] + SumOver(S \ {x}, f)

\* np.unique(y)
Unique(y) == Range(y)

ClassCounts(y) ==
    [c \in Unique(y) |-> Cardinality({i \in DOMAIN y : y[i] = c})]

\* test_size=0.3: n_test = ceil(0.3 * n), n_train = n - n_test
NTest(n) == (3 * n + 9) \div 10
NTrain(n) == n - NTest(n)

\* sklearn's _approximate_mode: each class gets the floor of its exact share
\* of n_draws; the draws left over go to the classes with the largest
\* remainders, equal remainders in the generator's order
ApproximateMode(counts, n_draws, rank) ==
    LET cls     == DOMAIN counts
        total   == SumOver(cls, counts)
        floored == [c \in cls |-> (counts[c] * n_draws) \div total]
        rem     == [c \in cls |-> (counts[c] * n_draws) % total]
        need    == n_draws - SumOver(cls, floored)
        Before(c, d) == rem[c] > rem[d] \/ (rem[c] = rem[d] /\ rank[c] < rank[d])
        pos     == [c \in cls |-> Cardinality({d \in cls : Before(d, c)})]
    IN  [c \in cls |-> floored[c] + (IF pos[c] < need THEN 1 ELSE 0)]

\* stratify=y without shuffling by class: the first n_train rows of the
\* generator's order, whatever their labels
TrainIndices_unstratified(y, rank) ==
    LET order == OrderBy(DOMAIN y, rank)
    IN  {order[k] : k \in 1..NTrain(Len(y))}

\* StratifiedShuffleSplit: of each class, the first n_i[c] rows in the
\* generator's order go to the training subset, the others to the test subset
TrainIndices(y, rank) ==
    LET n_i == ApproximateMode(ClassCounts(y), NTrain(Len(y)), rank)
        members(c) == OrderBy({i \in DOMAIN y : y[i] = c}, rank)
    IN  UNION {{members(c)[k] : k \in 1..n_i[c]} : c \in Unique(y)}

\* the ValueErrors of a stratified split
SplitError(y) ==
    LET counts == ClassCounts(y)
        n_classes == Cardinality(Unique(y))
    IN  \/ NTrain(Len(y)) = 0
        \/ \E c \in Unique(y) : counts[c] < 2
        \/ NTrain(Len(y)) < n_classes
        \/ NTest(Len(y)) < n_classes

\* the rows `idx` of a column or matrix, with the rows they come from
Take(a, idx) == [rows |-> idx, vals |-> [k \in 1..Len(idx) |-> a[idx[k]]]]

\* X, y = df_wine.iloc[:, 1:].values, df_wine.iloc[:, 0].values
FeaturesOf(df) == [i \in 1..Len(df) |-> Tail(df[i])]
LabelsOf(df) == [i \in 1..Len(df) |-> Head(df[i])]

\* X_train, X_test, y_train, y_test = train_test_split(
\*     X, y, test_size=0.3, stratify=y, random_state=0)
Split ==
    /\ At("split")
    /\ LET X == FeaturesOf(df_wine)
           y == LabelsOf(df_wine)
       IN  /\ ~SplitError(y)
           /\ LET tr    == TrainIndices(y, RandomState(0))
                  train == OrderBy(tr, RandomState(0))
                  test  == OrderBy(DOMAIN y \ tr, RandomState(0))
              IN  /\ X_train' = Take(X, train)
                  /\ X_test' = Take(X, test)
                  /\ y_train' = Take(y, train)
                  /\ y_test' = Take(y, test)
    /\ pc' = "fit_transform"
    /\ UNCHANGED <<runVars, envVars, error, fetches, df_wine, sclVars, eigVars, pcaVars,
                   logVars>>

SplitFail ==
    /\ At("split")
    /\ SplitError(LabelsOf(df_wine))
    /\ Raise("ValueError")

\* ------------------------------------------------------------------- scale
\* StandardScaler.fit: per column the mean S/n and the variance V/n^2 of the
\* rows given; scale_ is sqrt(var_), and 1 where the variance is zero
\* (scale2 is n^2 * scale_^2)
Fit(X) ==
    LET n == Len(X.vals)
        S == [j \in Feats |-> SumSeq(Column(X.vals, j))]
        Q == [j \in Feats |-> SumSeq([i \in 1..n |-> X.vals[i][j] * X.vals[i][j]])]
        V == [j \in Feats |-> n * Q[j] - S[j] * S[j]]
    IN  [fitted |-> TRUE, n |-> n, mean_num |-> S, var_num |-> V,
         scale2 |-> [j \in Feats |-> IF V[j] = 0 THEN n * n ELSE V[j]]]

\* a transform that scales without centring: x / scale_
Transform_nocenter(s, X) ==
    [rows |-> X.rows,
     vals |-> [i \in 1..Len(X.vals) |->
                 [j \in Feats |-> [num |-> s.n * X.vals[i][j],
                                   den2 |-> s.scale2[j]]]]]

\* StandardScaler.transform: (x - mean_) / scale_, as num / sqrt(den2)
Transform(s, X) ==
    [rows |-> X.rows,
     vals |-> [i \in 1..Len(X.vals) |->
                 [j \in Feats |-> [num |-> s.n * X.vals[i][j] - s.mean_num[j],
                                   den2 |-> s.scale2[j]]]]]

\* one call of an estimator: which object, which method, which rows of the
\* file the argument derives from
Call(est, op, rows) == [est |-> est, op |-> op, rows |-> Range(rows)]

\* sc = StandardScaler(); X_train_std = sc.fit_transform(X_train)
FitTransformTrain ==
    /\ At("fit_transform")
    /\ sc' = Fit(X_train)
    /\ X_train_std' = Transform(Fit(X_train), X_train)
    /\ calls' = Append(calls, Call("sc", "fit_transform", X_train.rows))
    /\ pc' = "transform"
    /\ UNCHANGED <<runVars, envVars, error, fetches, dataVars, X_test_std, eigVars,
                   pcaVars, plots>>

\* the test subset standardized by a scaler fitted again, on the test subset
TransformTest_refit ==
    /\ At("transform")
    /\ sc' = Fit(X_test)
    /\ X_test_std' = Transform(Fit(X_test), X_test)
    /\ calls' = Append(calls, Call("sc", "fit_transform", X_test.rows))
    /\ pc' = "eig"
    /\ UNCHANGED <<runVars, envVars, error, fetches, dataVars, X_train_std, eigVars,
                   pcaVars, plots>>

\* X_test_std = sc.transform(X_test)
TransformTest ==
    /\ At("transform")
    /\ X_test_std' = Transform(sc, X_test)
    /\ calls' = Append(calls, Call("sc", "transform", X_test.rows))
    /\ pc' = "eig"
    /\ UNCHANGED <<runVars, envVars, error, fetches, dataVars, sc, X_train_std, eigVars,
                   pcaVars, plots>>

\* --------------------------------------------------------------------- eig
\* np.cov(X.T): the columns' covariances with n - 1 in the denominator; the
\* entry (j, k) is num / sqrt(den2)
Cov(X) ==
    LET n == Len(X.vals)
    IN  [j \in Feats |-> [k \in Feats |->
            [num |-> SumSeq([i \in 1..n |-> X.vals[i][j].num * X.vals[i][k].num]),
             den2 |-> X.vals[1][j].den2 * X.vals[1][k].den2 * (n - 1) * (n - 1)]]]

\* cov_mat = np.cov(X_train_std.T)
\* eigen_vals, eigen_vecs = np.linalg.eig(cov_mat)
\* column i of eigen_vecs is the eigenvector of eigen_vals[i]; the
\* eigenvectors of a symmetric matrix are orthonormal, here the unit vectors
Eig ==
    /\ At("eig")
    /\ cov_mat' = Cov(X_train_std)
    /\ eigen_vals' = [i \in Feats |-> lapack.vals[i]]
    /\ eigen_vecs' = [r \in Feats |-> [i \in Feats |->
                         IF r = lapack.order[i] THEN 1 ELSE 0]]
    /\ pc' = "var_exp"
    /\ UNCHANGED <<runVars, envVars, error, fetches, dataVars, sclVars, tot, var_exp,
                   cum_var_exp, eigen_pairs, w, pcaVars, logVars>>

\* the eigenvalue iteration does not converge
EigFail ==
    /\ At("eig")
    /\ Raise("LinAlgError")

\* seq ordered by descending key (keys[i] is the key of seq[i]) where equal
\* keys come out in the reverse of the order they went in
SortDesc_unstable(seq, keys) ==
    LET n == Len(seq)
        pos(i) == Cardinality({j \in 1..n : keys[j] > keys[i]})
                  + Cardinality({j \in 1..n : j > i /\ keys[j] = keys[i]}) + 1
    IN  [p \in 1..n |-> seq[CHOOSE i \in 1..n : pos(i) = p]]

\* list.sort(key=..., reverse=True) and sorted(..., reverse=True): descending
\* by key, and stable: equal keys keep the order they went in (keys[i] is
\* the key of seq[i])
SortDesc(seq, keys) ==
    LET n == Len(seq)
        pos(i) == Cardinality({j \in 1..n : keys[j] > keys[i]})
                  + Cardinality({j \in 1..n : j < i /\ keys[j] = keys[i]}) + 1
    IN  [p \in 1..n |-> seq[CHOOSE i \in 1..n : pos(i) = p]]

\* np.cumsum
CumSum(s) == [i \in 1..Len(s) |-> SumSeq(SubSeq(s, 1, i))]

\* one rendered chart: the function, the arrays given, and per plotted
\* class its label, marker and colour
Chart(fn, X, y, series) == [fn |-> fn, X |-> X, y |-> y, series |-> series]

\* tot = sum(eigen_vals)
\* var_exp = [(i / tot) for i in sorted(eigen_vals, reverse=True)]
\* cum_var_exp = np.cumsum(var_exp); then the bar and step charts
\* (a ratio i / tot is kept as [num |-> i, den |-> tot])
VarExp ==
    /\ At("var_exp")
    /\ tot' = SumSeq(eigen_vals)
    /\ LET sorted == SortDesc(eigen_vals, eigen_vals)
       IN  /\ var_exp' = [i \in 1..Len(sorted) |->
                            [num |-> sorted[i], den |-> SumSeq(eigen_vals)]]
           /\ cum_var_exp' = [i \in 1..Len(sorted) |->
                                [num |-> CumSum(sorted)[i], den |-> SumSeq(eigen_vals)]]
    /\ plots' = Append(plots, Chart("bar_step", NoPcaArr, NoArr, <<>>))
    /\ pc' = "pairs"
    /\ UNCHANGED <<runVars, envVars, error, fetches, dataVars, sclVars, cov_mat, eigen_vals,
                   eigen_vecs, eigen_pairs, w, pcaVars, calls>>

\* the pairs keyed by the eigenvalue itself, without np.abs
MakePairs_signed(vals, vecs) ==
    [i \in 1..Len(vals) |-> <<vals[i], Column(vecs, i)>>]

\* eigen_pairs = [(np.abs(eigen_vals[i]), eigen_vecs[:, i]) for i in ...]
MakePairs(vals, vecs) ==
    [i \in 1..Len(vals) |-> <<Abs(vals[i]), Column(vecs, i)>>]

\* v comes before u when the tuples are compared element by element
VecGreater(v, u) ==
    \E r \in DOMAIN v : v[r] > u[r] /\ \A q \in 1..(r - 1) : v[q] = u[q]

\* eigen_pairs.sort(reverse=True) without the key: whole tuples compared, so
\* that equal eigenvalues are ordered by their eigenvectors
SortPairs_tuples(pairs) ==
    LET n == Len(pairs)
        Before(i, j) == \/ pairs[i][1] > pairs[j][1]
                        \/ pairs[i][1] = pairs[j][1] /\ VecGreater(pairs[i][2], pairs[j][2])
        pos(i) == Cardinality({j \in 1..n : Before(j, i)}) + 1
    IN  [p \in 1..n |-> pairs[CHOOSE i \in 1..n : pos(i) = p]]

\* eigen_pairs.sort(key=lambda k: k[0], reverse=True)
SortPairs(pairs) == SortDesc(pairs, [i \in 1..Len(pairs) |-> pairs[i][1]])

\* w = np.hstack((eigen_pairs[0][1][:, np.newaxis],
\*                eigen_pairs[1][1][:, np.newaxis]))
HStack(pairs) == [r \in 1..Len(pairs[1][2]) |-> <<pairs[1][2][r], pairs[2][2][r]>>]

Pairs ==
    /\ At("pairs")
    /\ eigen_pairs' = SortPairs(MakePairs(eigen_vals, eigen_vecs))
    /\ w' = HStack(SortPairs(MakePairs(eigen_vals, eigen_vecs)))
    /\ pc' = "project"
    /\ UNCHANGED <<runVars, envVars, error, fetches, dataVars, sclVars, cov_mat, eigen_vals,
                   eigen_vecs, tot, var_exp, cum_var_exp, pcaVars, logVars>>

\* ----------------------------------------------------------------- project
\* X.dot(w): every column of w is a unit vector, so an entry of the product
\* is the one standardized value the column selects
Dot(X, wm) ==
    [i \in 1..Len(X.vals) |-> [k \in 1..Len(wm[1]) |->
        LET j == CHOOSE j \in 1..Len(wm) : wm[j][k] # 0
        IN  [num |-> X.vals[i][j].num * wm[j][k], den2 |-> X.vals[i][j].den2]]]

\* for l, c, m in zip(np.unique(y_train), colors, markers): plt.scatter(...)
ScatterSeries(y) ==
    LET cls == OrderBy(Unique(y), [c \in Unique(y) |-> c])
        colors == <<"r", "b", "g">>
        markers == <<"s", "x", "o">>
        n == IF Len(cls) < Len(colors) THEN Len(cls) ELSE Len(colors)
    IN  [k \in 1..n |-> [cl |-> cls[k], marker |-> markers[k], color |-> colors[k]]]

\* X_train_pca = X_train_std.dot(w), then the scatter chart of the classes
Project ==
    /\ At("project")
    /\ X_train_pca' = [by |-> "w", op |-> "dot", input |-> "X_train_std",
                       rows |-> X_train_std.rows, ncols |-> Len(w[1]),
                       vals |-> Dot(X_train_std, w)]
    /\ plots' = Append(plots, Chart("scatter",
                    [by |-> "w", op |-> "dot", input |-> "X_train_std",
                     rows |-> X_train_std.rows, ncols |-> Len(w[1]),
                     vals |-> Dot(X_train_std, w)],
                    y_train, ScatterSeries(y_train.vals)))
    /\ pc' = "pca_all"
    /\ UNCHANGED <<runVars, envVars, error, fetches, dataVars, sclVars, eigVars,
                   X_test_pca, pca, lr, calls>>

\* ------------------------------------------------------------- library PCA
Min(a, b) == IF a < b THEN a ELSE b

\* the array an estimator call returns: which object made it, by which
\* method, from which array; its rows and its number of columns (the values
\* of a library projection are not modelled)
Output(by, op, input, rows, ncols) ==
    [by |-> by, op |-> op, input |-> input, rows |-> rows, ncols |-> ncols,
     vals |-> <<>>]

\* pca = PCA(n_components=None); X_train_pca = pca.fit_transform(X_train_std)
\* n_components=None keeps min(n_samples, n_features) components
PcaAll ==
    /\ At("pca_all")
    /\ pca' = [id |-> "pca1", n_components |-> 0,
               fitted_rows |-> Range(X_train_std.rows)]
    /\ X_train_pca' = Output("pca1", "fit_transform", "X_train_std",
                             X_train_std.rows,
                             Min(Len(X_train_std.vals), NumFeatures))
    /\ calls' = Append(calls, Call("pca1", "fit_transform", X_train_std.rows))
    /\ pc' = "pca2_new"
    /\ UNCHANGED <<runVars, envVars, error, fetches, dataVars, sclVars, eigVars,
                   X_test_pca, lr, plots>>

\* pca = PCA(n_components=2)
\* lr = LogisticRegression(multi_class='auto', solver='liblinear', random_state=0)
Pca2New ==
    /\ At("pca2_new")
    /\ pca' = [id |-> "pca2", n_components |-> 2, fitted_rows |-> {}]
    /\ lr' = [made |-> TRUE, fitted |-> FALSE, X |-> NoPcaArr, y |-> NoArr,
              stream |-> RandomState(0)]
    /\ pc' = "pca2_fit"
    /\ UNCHANGED <<runVars, envVars, error, fetches, dataVars, sclVars, eigVars,
                   X_train_pca, X_test_pca, logVars>>

\* the projection of the training subset stored under another name:
\* X_train_pca keeps the array of the PCA before
Pca2Fit_norebind ==
    /\ At("pca2_fit")
    /\ pca.n_components <= Min(Len(X_train_std.vals), NumFeatures)
    /\ pca' = [pca EXCEPT !.fitted_rows = Range(X_train_std.rows)]
    /\ calls' = Append(calls, Call(pca.id, "fit_transform", X_train_std.rows))
    /\ pc' = "pca2_transform"
    /\ UNCHANGED <<runVars, envVars, error, fetches, dataVars, sclVars, eigVars,
                   X_train_pca, X_test_pca, lr, plots>>

\* X_train_pca = pca.fit_transform(X_train_std)
Pca2Fit ==
    /\ At("pca2_fit")
    /\ pca.n_components <= Min(Len(X_train_std.vals), NumFeatures)
    /\ pca' = [pca EXCEPT !.fitted_rows = Range(X_train_std.rows)]
    /\ X_train_pca' = Output(pca.id, "fit_transform", "X_train_std",
                             X_train_std.rows, pca.n_components)
    /\ calls' = Append(calls, Call(pca.id, "fit_transform", X_train_std.rows))
    /\ pc' = "pca2_transform"
    /\ UNCHANGED <<runVars, envVars, error, fetches, dataVars, sclVars, eigVars,
                   X_test_pca, lr, plots>>

\* the test subset projected by a PCA fitted again, on the test subset
Pca2Transform_refit ==
    /\ At("pca2_transform")
    /\ pca' = [pca EXCEPT !.fitted_rows = Range(X_test_std.rows)]
    /\ X_test_pca' = Output(pca.id, "fit_transform", "X_test_std",
                            X_test_std.rows, pca.n_components)
    /\ calls' = Append(calls, Call(pca.id, "fit_transform", X_test_std.rows))
    /\ pc' = "lr_fit"
    /\ UNCHANGED <<runVars, envVars, error, fetches, dataVars, sclVars, eigVars,
                   X_train_pca, lr, plots>>

\* X_test_pca = pca.transform(X_test_std)
Pca2Transform ==
    /\ At("pca2_transform")
    /\ X_test_pca' = Output(pca.id, "transform", "X_test_std",
                            X_test_std.rows, pca.n_components)
    /\ calls' = Append(calls, Call(pca.id, "transform", X_test_std.rows))
    /\ pc' = "lr_fit"
    /\ UNCHANGED <<runVars, envVars, error, fetches, dataVars, sclVars, eigVars,
                   X_train_pca, pca, lr, plots>>

\* liblinear needs samples of at least 2 classes
LrFitError(y) == Cardinality(Unique(y.vals)) < 2

\* lr.fit(X_train_pca, y_train)
LrFit ==
    /\ At("lr_fit")
    /\ ~LrFitError(y_train)
    /\ lr' = [lr EXCEPT !.fitted = TRUE, !.X = X_train_pca, !.y = y_train]
    /\ calls' = Append(calls, Call("lr", "fit", X_train_pca.rows))
    /\ pc' = "plot_train"
    /\ UNCHANGED <<runVars, envVars, error, fetches, dataVars, sclVars, eigVars,
                   X_train_pca, X_test_pca, pca, plots>>

LrFitFail ==
    /\ At("lr_fit")
    /\ LrFitError(y_train)
    /\ Raise("ValueError")

\* ------------------------------------------------------------------- plots
\* markers = ('s', 'x', 'o', '^', 'v')
Markers == <<"s", "x", "o", "^", "v">>
\* colors = ('red', 'blue', 'lightgreen', 'gray', 'cyan')
Colors == <<"red", "blue", "lightgreen", "gray", "cyan">>

\* the class loop with the marker and the colour picked by the class label
\* instead of its position: markers[cl % 5]
RegionSeries_bylabel(y) ==
    LET cls == OrderBy(Unique(y), [c \in Unique(y) |-> c])
    IN  [k \in 1..Len(cls) |-> [cl |-> cls[k],
                                marker |-> Markers[(cls[k] % Len(Markers)) + 1],
                                color |-> Colors[(cls[k] % Len(Colors)) + 1]]]

\* plot_decision_regions: cmap = ListedColormap(colors[:len(np.unique(y))]),
\* then for idx, cl in enumerate(np.unique(y)) one scatter with markers[idx]
\* and the colour cmap(idx)
RegionSeries(y) ==
    LET cls == OrderBy(Unique(y), [c \in Unique(y) |-> c])
        cmap == SubSeq(Colors, 1, Min(Len(cls), Len(Colors)))
    IN  [k \in 1..Len(cls) |-> [cl |-> cls[k], marker |-> Markers[k],
                                color |-> cmap[k]]]

\* markers[idx] raises IndexError for the sixth class
PlotError(y) == Cardinality(Unique(y)) > Len(Markers)

\* plot_decision_regions(X_train_pca, y_train, classifier=lr)
PlotTrain ==
    /\ At("plot_train")
    /\ ~PlotError(y_train.vals)
    /\ plots' = Append(plots, Chart("plot_decision_regions", X_train_pca, y_train,
                                    RegionSeries(y_train.vals)))
    /\ pc' = "plot_test"
    /\ UNCHANGED <<runVars, envVars, error, fetches, dataVars, sclVars, eigVars, pcaVars,
                   calls>>

\* plot_decision_regions(X_test_pca, y_test, classifier=lr)
PlotTest ==
    /\ At("plot_test")
    /\ ~PlotError(y_test.vals)
    /\ plots' = Append(plots, Chart("plot_decision_regions", X_test_pca, y_test,
                                    RegionSeries(y_test.vals)))
    /\ pc' = "done"
    /\ UNCHANGED <<runVars, envVars, error, fetches, dataVars, sclVars, eigVars, pcaVars,
                   calls>>

\* plot_decision_regions raising on y_train
PlotTrainFail ==
    /\ At("plot_train")
    /\ PlotError(y_train.vals)
    /\ Raise("IndexError")

Next ==
    \/ ReadCsv
    \/ ReadCsvFail
    \/ Split
    \/ SplitFail
    \/ FitTransformTrain
    \/ TransformTest
    \/ Eig
    \/ EigFail
    \/ VarExp
    \/ Pairs
    \/ Project
    \/ PcaAll
    \/ Pca2New
    \/ Pca2Fit
    \/ Pca2Transform
    \/ LrFit
    \/ LrFitFail
    \/ PlotTrain
    \/ PlotTest

Spec == Init /\ [][Next]_vars

\* ------------------------------------------------------------ a second run
\* the cells run top to bottom once more in the same session: the names
\* keep what the first run bound them to until a cell binds them again
Rerun ==
    /\ At("done")
    /\ run = 1
    /\ run' = 2
    /\ prev' = Artifacts
    /\ pc' = "read_csv"
    /\ fetches' = 0
    /\ calls' = <<>> /\ plots' = <<>>
    /\ UNCHANGED <<envVars, error, dataVars, sclVars, eigVars, pcaVars>>

NextRerun ==
    \/ Next
    \/ Rerun

SpecRerun == Init /\ [][NextRerun]_vars

\* ------------------------------------------- plot_decision_regions by itself
\* the function applied to arguments of any labels: X of PlotRows rows and 2
\* columns, y of PlotRows labels out of one more than there are markers, and
\* a classifier fitted on them; the second call gets the labels reversed
PlotLabels == 1..(Len(Markers) + 1)
PlotIdx == [i \in 1..PlotRows |-> i]
Reverse(s) == [i \in 1..Len(s) |-> s[Len(s) + 1 - i]]

InitPlot ==
    /\ remote = DefaultFile /\ rng = Identity /\ lapack = DefaultLapack
    /\ pc = "plot_train" /\ error = "none" /\ fetches = 1
    /\ df_wine = <<>>
    /\ X_train = NoArr /\ X_test = NoArr
    /\ \E y \in [1..PlotRows -> PlotLabels] :
          /\ y_train = [rows |-> PlotIdx, vals |-> y]
          /\ y_test = [rows |-> PlotIdx, vals |-> Reverse(y)]
          /\ lr = [made |-> TRUE, fitted |-> TRUE,
                   X |-> Output("pca2", "fit_transform", "X_train_std", PlotIdx, 2),
                   y |-> [rows |-> PlotIdx, vals |-> y],
                   stream |-> RandomState(0)]
    /\ sc = NoScaler /\ X_train_std = NoArr /\ X_test_std = NoArr
    /\ cov_mat = <<>> /\ eigen_vals = <<>> /\ eigen_vecs = <<>>
    /\ tot = 0 /\ var_exp = <<>> /\ cum_var_exp = <<>>
    /\ eigen_pairs = <<>> /\ w = <<>>
    /\ X_train_pca = Output("pca2", "fit_transform", "X_train_std", PlotIdx, 2)
    /\ X_test_pca = Output("pca2", "transform", "X_test_std", PlotIdx, 2)
    /\ pca = [id |-> "pca2", n_components |-> 2, fitted_rows |-> Range(PlotIdx)]
    /\ calls = <<>> /\ plots = <<>>
    /\ run = 1 /\ prev = NoArtifacts

NextPlot ==
    \/ PlotTrain
    \/ PlotTrainFail
    \/ PlotTest

SpecPlot == InitPlot /\ [][NextPlot]_vars

\* ================================================================== claims
Fits == {"fit", "fit_transform"}
TrainRows == Range(X_train.rows)
TestRows == Range(X_test.rows)
SplitDone == X_train # NoArr

\* C1: no test-set statistics leak into the scaler.  Once fitted, the
\* scaler's parameters never change again (sc.transform(X_test) and every
\* later step leave them alone); they are the mean and standard deviation
\* of X_train, and X_test_std is X_test transformed with exactly them.
C1_NoLeak ==
    /\ [][sc.fitted => sc' = sc]_vars
    /\ [](sc.fitted => sc = Fit(X_train))
    /\ [](X_test_std # NoArr => X_test_std = Transform(Fit(X_train), X_test))

\* the run is over, and the test subset has other statistics than the
\* training subset, so a refit on it would have shown
C1_Witness ==
    /\ pc = "done"
    /\ X_test_std # NoArr
    /\ Fit(X_test).mean_num # Fit(X_train).mean_num
    /\ Fit(X_test).scale2 # Fit(X_train).scale2

\* C2: fit, then transform.  Every fitting call (the scaler's, both PCAs',
\* the classifier's) is given rows of the training subset only, never a row
\* of the test subset; every transform call comes after a fitting call on
\* the same estimator object; the test-derived arrays are made by transform
\* calls; and a finished run made exactly these six calls, in this order.
C2_FitThenTransform ==
    /\ \A k \in DOMAIN calls :
          calls[k].op \in Fits =>
              /\ calls[k].rows \subseteq TrainRows
              /\ calls[k].rows \cap TestRows = {}
    /\ \A k \in DOMAIN calls :
          calls[k].op = "transform" =>
              \E j \in 1..(k - 1) : calls[j].est = calls[k].est /\ calls[j].op \in Fits
    /\ \A k \in DOMAIN calls :
          calls[k].rows \cap TestRows # {} => calls[k].op = "transform"
    /\ pc = "done" =>
          [k \in DOMAIN calls |-> <<calls[k].est, calls[k].op>>] =
              << <<"sc", "fit_transform">>, <<"sc", "transform">>,
                 <<"pca1", "fit_transform">>, <<"pca2", "fit_transform">>,
                 <<"pca2", "transform">>, <<"lr", "fit">> >>

\* a finished run: all six estimator calls made, on a split with rows on
\* both sides
C2_Witness ==
    /\ pc = "done"
    /\ Len(calls) = 6
    /\ TrainRows # {} /\ TestRows # {}
    /\ calls[5].rows = TestRows

\* the column of eigen_vecs a vector was produced in
ProducedAt(vec) == CHOOSE i \in DOMAIN eigen_vals : Column(eigen_vecs, i) = vec

C4_SortIdempotent ==
    eigen_pairs # <<>> => SortPairs(eigen_pairs) = eigen_pairs

\* the sorted list holds two different pairs of equal absolute eigenvalue
C4_Witness ==
    /\ eigen_pairs # <<>>
    /\ eigen_pairs[1][1] = eigen_pairs[2][1]
    /\ eigen_pairs[1][2] # eigen_pairs[2][2]

\* C5: the split partitions the loaded rows.  The two subsets are disjoint,
\* hold every row once, and hold the rows' own features and labels; the
\* test subset has 30% of the rows, rounded up to a whole row; and every
\* class has in each subset its share of the whole, to less than one row.
ClassRows(c) == {i \in DOMAIN df_wine : Head(df_wine[i]) = c}
WithinOneRow(c, part) ==
    Abs(Cardinality(ClassRows(c) \cap part) * Len(df_wine)
        - Cardinality(ClassRows(c)) * Cardinality(part)) < Len(df_wine)

C5_SplitPartition ==
    SplitDone =>
        /\ TrainRows \cap TestRows = {}
        /\ TrainRows \cup TestRows = DOMAIN df_wine
        /\ Len(X_train.rows) + Len(X_test.rows) = Len(df_wine)
        /\ y_train.rows = X_train.rows /\ y_test.rows = X_test.rows
        /\ \A k \in DOMAIN X_train.rows :
              <<y_train.vals[k]>> \o X_train.vals[k] = df_wine[X_train.rows[k]]
        /\ \A k \in DOMAIN X_test.rows :
              <<y_test.vals[k]>> \o X_test.vals[k] = df_wine[X_test.rows[k]]
        /\ 10 * Len(X_test.rows) >= 3 * Len(df_wine)
        /\ 10 * (Len(X_test.rows) - 1) < 3 * Len(df_wine)
        /\ \A c \in 1..NumClasses :
              WithinOneRow(c, TrainRows) /\ WithinOneRow(c, TestRows)

\* a split of a file with two classes of different sizes, where the first
\* rows of the generator's order are not a stratified training subset
C5_Witness ==
    /\ SplitDone
    /\ Cardinality(ClassRows(1)) >= 2
    /\ Cardinality(ClassRows(2)) > Cardinality(ClassRows(1))
    /\ TrainRows # TrainIndices_unstratified(LabelsOf(df_wine), rng)

\* C6: X_train_pca is bound three times (the manual projection, the PCA
\* with every component, the PCA with 2 components), and only there; what
\* lr.fit is given, and what the two plot_decision_regions calls draw, are
\* the 2-column arrays of the one PCA(n_components=2) object: its
\* fit_transform of X_train_std and its transform of X_test_std.
Pca2Train == Output("pca2", "fit_transform", "X_train_std", X_train_std.rows, 2)
Pca2Test == Output("pca2", "transform", "X_test_std", X_test_std.rows, 2)
RegionPlots == SelectSeq(plots, LAMBDA c : c.fn = "plot_decision_regions")

C6_ClassifierInput ==
    /\ [][X_train_pca' # X_train_pca => pc \in {"project", "pca_all", "pca2_fit"}]_vars
    /\ [](lr.fitted => lr.X = Pca2Train /\ lr.y = y_train /\ pca.id = "pca2")
    /\ [](Len(RegionPlots) >= 1 =>
            RegionPlots[1].X = Pca2Train /\ RegionPlots[1].y = y_train)
    /\ [](Len(RegionPlots) >= 2 =>
            RegionPlots[2].X = Pca2Test /\ RegionPlots[2].y = y_test)
    /\ [](pc = "done" => Len(RegionPlots) = 2)

\* both region plots are drawn; the scatter chart before them had drawn the
\* manual projection, another array than the classifier was fitted on
C6_Witness ==
    /\ pc = "done"
    /\ lr.fitted
    /\ Len(RegionPlots) = 2
    /\ \E k \in DOMAIN plots : plots[k].fn = "scatter" /\ plots[k].X.by = "w"
    /\ X_train_pca.ncols = 2 /\ X_test_pca.ncols = 2

\* C7: a failing step halts the run.  The step that raises leaves every
\* name as it was and the run where it is; after that nothing changes any
\* more: no later step runs and none is tried again; and the file is
\* fetched at most once in a run.
C7_HaltOnError ==
    /\ [][error # "none" => UNCHANGED vars]_vars
    /\ [][error = "none" /\ error' # "none" =>
            /\ pc' = pc
            /\ UNCHANGED <<dataVars, sclVars, eigVars, pcaVars, logVars>>]_vars
    /\ [](fetches <= 1)
    /\ [](pc # "read_csv" => fetches = 1)

\* the eigen-decomposition has failed in the middle of a run: the file was
\* fetched once, the scaler is fitted, nothing later exists
C7_Witness ==
    /\ error = "LinAlgError"
    /\ pc = "eig"
    /\ fetches = 1
    /\ sc.fitted
    /\ eigen_pairs = <<>> /\ ~lr.fitted

\* a column of a standardized matrix: its mean is 0, its standard deviation 1
\* (the values are num / sqrt(den2) with one den2 in the column)
MeanZero(X, j) == SumSeq([i \in 1..Len(X.vals) |-> X.vals[i][j].num]) = 0
StdOne(X, j) ==
    SumSeq([i \in 1..Len(X.vals) |-> X.vals[i][j].num * X.vals[i][j].num])
        = Len(X.vals) * X.vals[1][j].den2
Constant(X, j) == \A i \in 1..Len(X.vals) : X.vals[i][j] = X.vals[1][j]

\* C8 as stated: after X_train_std = sc.fit_transform(X_train) every column
\* of X_train_std has mean 0 and standard deviation 1.
C8_Original ==
    X_train_std # NoArr =>
        \A j \in Feats : MeanZero(X_train_std, j) /\ StdOne(X_train_std, j)

\* C8 amended: every column of X_train_std has mean 0; a column that takes
\* two different values in X_train has standard deviation 1; a column that
\* is constant in X_train comes out as zeros, with standard deviation 0.
C8_Standardized ==
    X_train_std # NoArr =>
        \A j \in Feats :
            /\ MeanZero(X_train_std, j)
            /\ ~Constant(X_train, j) => StdOne(X_train_std, j)
            /\ Constant(X_train, j) =>
                  /\ \A i \in 1..Len(X_train_std.vals) : X_train_std.vals[i][j].num = 0
                  /\ ~StdOne(X_train_std, j)

\* the training subset has a column of two values with a mean other than 0,
\* and a constant column with values other than 0
C8_Witness ==
    /\ X_train_std # NoArr
    /\ \E j \in Feats : ~Constant(X_train, j) /\ sc.mean_num[j] # 0
    /\ \E j \in Feats : Constant(X_train, j) /\ X_train.vals[1][j] # 0

\* C9 as stated: the i-th entry of var_exp is the ratio of the eigenvalue
\* that belongs to the i-th entry of eigen_pairs.
C9_SameOrder ==
    eigen_pairs # <<>> =>
        \A i \in DOMAIN eigen_pairs :
            var_exp[i] = [num |-> eigen_vals[ProducedAt(eigen_pairs[i][2])], den |-> tot]

\* C10: pairs of equal absolute eigenvalue stay in the order the
\* decomposition produced them in, whatever their eigenvectors are; so the
\* first column of W is the first produced eigenvector among those of
\* largest absolute eigenvalue, and the second column the first produced
\* among those of largest absolute eigenvalue that are left.
FirstLargest(S) ==
    CHOOSE i \in S :
        /\ \A j \in S : Abs(eigen_vals[i]) >= Abs(eigen_vals[j])
        /\ \A j \in S : Abs(eigen_vals[j]) = Abs(eigen_vals[i]) => i <= j

C10_TiesByProduction ==
    w # <<>> =>
        /\ \A p, q \in DOMAIN eigen_pairs :
              p < q /\ eigen_pairs[p][1] = eigen_pairs[q][1] =>
                  ProducedAt(eigen_pairs[p][2]) < ProducedAt(eigen_pairs[q][2])
        /\ LET i1 == FirstLargest(DOMAIN eigen_vals)
               i2 == FirstLargest(DOMAIN eigen_vals \ {i1})
           IN  /\ Column(w, 1) = Column(eigen_vecs, i1)
               /\ Column(w, 2) = Column(eigen_vecs, i2)

\* two eigenvalues of equal absolute value and opposite sign, produced with
\* the eigenvector that compares smaller first
C10_Witness ==
    /\ w # <<>>
    /\ Abs(eigen_vals[1]) = Abs(eigen_vals[2])
    /\ eigen_vals[1] # eigen_vals[2]
    /\ VecGreater(Column(eigen_vecs, 2), Column(eigen_vecs, 1))
    /\ Column(w, 1) = Column(eigen_vecs, 1)

\* C11: plot_decision_regions only renders.  For labels y of at most 5
\* classes the call does not raise and draws every class of y once, in
\* rising order of the labels, the idx-th with markers[idx] and colors[idx],
\* idx within the 5 entries of both; and the call leaves X, y and the fitted
\* classifier as they were.
SeriesOf(c) == [k \in DOMAIN c.series |-> c.series[k].cl]

C11_PureRendering ==
    /\ [](\A n \in DOMAIN RegionPlots :
            LET c == RegionPlots[n] IN
            /\ Len(c.series) = Cardinality(Unique(c.y.vals))
            /\ Len(c.series) <= Len(Markers) /\ Len(c.series) <= Len(Colors)
            /\ Range(SeriesOf(c)) = Unique(c.y.vals)
            /\ \A k \in DOMAIN c.series :
                  /\ \A m \in DOMAIN c.series : k < m => c.series[k].cl < c.series[m].cl
                  /\ c.series[k].marker = Markers[k]
                  /\ c.series[k].color = Colors[k])
    /\ [](error # "none" => Cardinality(Unique(y_train.vals)) > 5)
    /\ [](pc = "done" => Len(RegionPlots) = 2)
    /\ [][(pc = "plot_train" \/ pc = "plot_test") =>
            (X_train_pca' = X_train_pca /\ X_test_pca' = X_test_pca
             /\ y_train' = y_train /\ y_test' = y_test /\ lr' = lr)]_vars

\* both charts are drawn for labels of exactly 5 classes, given out of
\* order and none of them the label 1
C11_Witness ==
    /\ pc = "done"
    /\ Len(RegionPlots) = 2
    /\ Len(RegionPlots[1].series) = 5
    /\ RegionPlots[1].series[1].cl = 2
    /\ y_train.vals[1] > y_train.vals[2]
    /\ RegionPlots[2].series = RegionPlots[1].series

\* C12: the run is deterministic in its input.  A second run on the same
\* file binds every artifact to the value the first run gave it, whatever
\* the first run left behind: all through the second run the split, the
\* scaler's parameters, the sorted eigen-pairs and W are those of the first
\* run, and so is the classifier whenever it is fitted; the second run's
\* estimator calls are the first run's, call for call; and a second run
\* that finishes ends with the artifacts, calls and charts of the first.
C12_Deterministic ==
    /\ run = 2 =>
          /\ X_train = prev.X_train /\ X_test = prev.X_test
          /\ y_train = prev.y_train /\ y_test = prev.y_test
          /\ sc = prev.sc
          /\ eigen_pairs = prev.eigen_pairs /\ w = prev.w
          /\ lr.fitted => lr = prev.lr
          /\ \A k \in DOMAIN calls : calls[k] = prev.calls[k]
    /\ run = 2 /\ pc = "done" => Artifacts = prev

\* the second run is over; it has split by a stream that is not the row
\* order, fitted the classifier again and drawn its four charts again
C12_Witness ==
    /\ run = 2
    /\ pc = "done"
    /\ rng # Identity
    /\ Len(calls) = 6 /\ calls[6].est = "lr"
    /\ Len(plots) = 4
    /\ lr.fitted /\ lr = prev.lr
    /\ Range(X_train.rows) # Range(OrderBy(DOMAIN df_wine, Identity))

====
